---- MODULE Spec2Model ----
(***************************************************************************)
(* Model of data.py: the column descriptors (Field.to_ddl), the entity     *)
(* base (DBObject) and the gateway (Database) over one sqlite3 connection. *)
(*                                                                         *)
(* The sqlite3 engine is modelled by the Exec* operators: a table is a     *)
(* set of rows keyed by the INTEGER PRIMARY KEY id, its NOT NULL / UNIQUE  *)
(* column constraints are read back from the DDL that created it.          *)
(***************************************************************************)
EXTENDS Integers, Sequences, FiniteSets, TLC

\* Largest primary key a caller passes as id (ids range over 0..MaxId).
MaxId == 2

-----------------------------------------------------------------------------
(* Python values.                                                          *)

\* Python None / SQL NULL; any other value v is carried as Some(v).
None == <<>>
Some(v) == <<v>>

\* Text values a caller puts into the two declared fields.
Usernames == {"alice", "bob"}
Passwords == {"pw1", "pw2"}
Ids == 0..MaxId

OptIds == {None} \cup {Some(n) : n \in Ids}
FieldInputs ==
    [username : {None} \cup {Some(u) : u \in Usernames},
     password : {None} \cup {Some(p) : p \in Passwords}]

\* A Python literal used as a column default: its type and its repr() text
\* (for a str, v is the text itself and repr adds the quotes).
PyValue(t, v) == [t |-> t, v |-> v]
PyNone == PyValue("NoneType", "None")
DefaultValues ==
    {PyNone, PyValue("int", "0"), PyValue("int", "1"), PyValue("float", "0.0"),
     PyValue("bool", "False"), PyValue("str", ""), PyValue("str", "x")}

\* bool(x) of a Python literal.
Truthy(x) ==
    ~ \/ x.t = "NoneType"
      \/ x.t = "int" /\ x.v = "0"
      \/ x.t = "float" /\ x.v = "0.0"
      \/ x.t = "bool" /\ x.v = "False"
      \/ x.t = "str" /\ x.v = ""

\* repr(x) of a Python literal.
Repr(x) == IF x.t = "str" THEN "'" \o x.v \o "'" ELSE x.v

\* bool(x) of an optional text or an optional integer.
TruthyText(x) == x # None /\ x # Some("")
TruthyInt(x) == x # None /\ x # Some(0)

-----------------------------------------------------------------------------
(* Column descriptors.                                                     *)

Field(dbtype, null, default, unique, constraints) ==
    [dbtype |-> dbtype, null |-> null, default |-> default,
     unique |-> unique, constraints |-> constraints]

TextField(null, default, unique, constraints) ==
    Field("TEXT", null, default, unique, constraints)

\* The dbtype of Field, TextField and DateTimeField, IntField, FloatField.
DbTypes == {"BLOB", "TEXT", "INTEGER", "REAL"}

\* Raw constraint texts a schema author attaches to a column: the one the
\* repository uses, an empty one, and one that is not SQL.
ConstraintTexts == {"", "REFERENCES users(id)", "REFERENCES"}
WellFormedConstraints == {"REFERENCES users(id)"}

Fields ==
    [dbtype : DbTypes,
     null : BOOLEAN,
     default : DefaultValues,
     unique : BOOLEAN,
     constraints : {None} \cup {Some(c) : c \in ConstraintTexts}]

\* Field.to_ddl: the fragments appended to the DDL string, in order (the
\* string is the fragments joined by one space).
to_ddl(f) ==
    <<f.dbtype>>
    \o <<IF f.null THEN "NULL" ELSE "NOT NULL">>
    \o (IF Truthy(f.default) THEN <<"DEFAULT " \o Repr(f.default)>> ELSE <<>>)
    \o (IF f.unique THEN <<"UNIQUE">> ELSE <<>>)
    \o (IF TruthyText(f.constraints) THEN <<f.constraints[1]>> ELSE <<>>)

-----------------------------------------------------------------------------
(* Entity schemas and instances.                                           *)

\* class User(DBObject)
User ==
    [name |-> "User", table_name |-> "users",
     fields |-> << <<"username", TextField(FALSE, PyNone, TRUE, None)>>,
                   <<"password", TextField(FALSE, PyNone, FALSE, None)>> >>]

\* A caller-declared schema over the same table whose raw constraint text
\* is not SQL: its CREATE TABLE statement is malformed.
BrokenUser ==
    [name |-> "BrokenUser", table_name |-> "users",
     fields |-> << <<"username", TextField(FALSE, PyNone, TRUE, None)>>,
                   <<"password",
                     TextField(FALSE, PyNone, FALSE, Some("REFERENCES"))>> >>]

\* A caller-declared schema that sets no table name.
Unnamed ==
    [name |-> "Unnamed", table_name |-> "",
     fields |-> << <<"username", TextField(FALSE, PyNone, TRUE, None)>>,
                   <<"password", TextField(FALSE, PyNone, FALSE, None)>> >>]

Classes == {User, BrokenUser, Unnamed}

\* DBObject.field_names
field_names(cls) == [i \in 1..Len(cls.fields) |-> cls.fields[i][1]]

\* DBObject.__init__: id from kwargs.get('id'), each declared field from
\* kwargs.get(field); a missing key reads as None.
DBObject(cls, id, kwargs) ==
    [cls |-> cls, id |-> id,
     vals |-> [k \in {cls.fields[i][1] : i \in 1..Len(cls.fields)} |-> kwargs[k]]]

\* DBObject.values
values(o) == [i \in 1..Len(o.cls.fields) |-> o.vals[field_names(o.cls)[i]]]

\* DBObject.as_dict: zip(field_names(), values())
as_dict(o) ==
    [k \in {field_names(o.cls)[i] : i \in 1..Len(o.cls.fields)} |->
        values(o)[CHOOSE i \in 1..Len(o.cls.fields) : field_names(o.cls)[i] = k]]

\* DBObject.generate_create_table: the statement, with each column as the
\* fragments of its definition; err is RuntimeError when table_name is unset.
generate_create_table(cls, if_not_exists) ==
    IF cls.table_name = ""
    THEN [err |-> "RuntimeError", if_not_exists |-> if_not_exists,
          table |-> cls.table_name, cols |-> <<>>]
    ELSE [err |-> "none", if_not_exists |-> if_not_exists,
          table |-> cls.table_name,
          cols |-> << <<"id", "INTEGER", "PRIMARY KEY", "AUTOINCREMENT">> >>
                   \o [i \in 1..Len(cls.fields) |->
                         <<cls.fields[i][1]>> \o to_ddl(cls.fields[i][2])]]

-----------------------------------------------------------------------------
(* The sqlite3 engine behind self.con.                                     *)

TableNames == {"users"}

NoTable == [exists |-> FALSE, cols |-> <<>>, rows |-> {}]

\* Errors raised by the engine (sqlite3.Error subclasses).
StoreExecutionError == {"OperationalError", "IntegrityError"}

InSeq(s, x) == \E i \in 1..Len(s) : s[i] = x

\* Fragments of a column definition that sqlite parses.
SqlFragments ==
    DbTypes \cup {"NULL", "NOT NULL", "UNIQUE", "PRIMARY KEY", "AUTOINCREMENT"}
    \cup WellFormedConstraints
    \cup {"DEFAULT " \o Repr(d) : d \in DefaultValues}

\* A CREATE TABLE statement with a column fragment that is not SQL.
Malformed(stmt) ==
    \E i \in 1..Len(stmt.cols) :
        \E j \in 2..Len(stmt.cols[i]) : stmt.cols[i][j] \notin SqlFragments

\* The declared columns of a created table, as the engine reads the DDL.
ParseCols(stmt) ==
    [i \in 1..(Len(stmt.cols) - 1) |->
        [name |-> stmt.cols[i + 1][1],
         notnull |-> InSeq(stmt.cols[i + 1], "NOT NULL"),
         unique |-> InSeq(stmt.cols[i + 1], "UNIQUE")]]

\* CREATE TABLE [IF NOT EXISTS] <table> (...): sqlite rejects an existing
\* table when it reads the table name, before it reads the columns.
ExecCreate(d, stmt) ==
    IF d[stmt.table].exists /\ ~stmt.if_not_exists
    THEN [err |-> "OperationalError", db |-> d]
    ELSE IF Malformed(stmt)
    THEN [err |-> "OperationalError", db |-> d]
    ELSE IF d[stmt.table].exists
    THEN [err |-> "none", db |-> d]
    ELSE [err |-> "none",
          db |-> [d EXCEPT ![stmt.table] =
                    [exists |-> TRUE, cols |-> ParseCols(stmt), rows |-> {}]]]

\* DROP TABLE <table>
ExecDrop(d, table) ==
    IF table \notin TableNames \/ ~d[table].exists
    THEN [err |-> "OperationalError", db |-> d]
    ELSE [err |-> "none", db |-> [d EXCEPT ![table] = NoTable]]

\* Two rows hold the same non-NULL value in a UNIQUE column of table t.
Collides(t, r1, r2) ==
    \E i \in 1..Len(t.cols) :
        /\ t.cols[i].unique
        /\ r1.vals[t.cols[i].name] # None
        /\ r1.vals[t.cols[i].name] = r2.vals[t.cols[i].name]

\* INSERT OR IGNORE in place of REPLACE: a conflicting row is kept.
ExecInsertOrIgnore(d, table, id, names, vals) ==
    IF table \notin TableNames \/ ~d[table].exists
    THEN [err |-> "OperationalError", db |-> d]
    ELSE LET t == d[table]
             new == [id |-> id,
                     vals |-> [k \in {names[i] : i \in 1..Len(names)} |->
                                 vals[CHOOSE i \in 1..Len(names) : names[i] = k]]]
         IN IF \E i \in 1..Len(t.cols) :
                   t.cols[i].notnull /\ new.vals[t.cols[i].name] = None
            THEN [err |-> "IntegrityError", db |-> d]
            ELSE IF \E r \in t.rows : r.id = id \/ Collides(t, r, new)
            THEN [err |-> "none", db |-> d]
            ELSE [err |-> "none",
                  db |-> [d EXCEPT ![table].rows = t.rows \cup {new}]]

\* REPLACE that resolves only the primary-key conflict.
ExecReplaceKeyOnly(d, table, id, names, vals) ==
    IF table \notin TableNames \/ ~d[table].exists
    THEN [err |-> "OperationalError", db |-> d]
    ELSE LET t == d[table]
             new == [id |-> id,
                     vals |-> [k \in {names[i] : i \in 1..Len(names)} |->
                                 vals[CHOOSE i \in 1..Len(names) : names[i] = k]]]
         IN IF \E i \in 1..Len(t.cols) :
                   t.cols[i].notnull /\ new.vals[t.cols[i].name] = None
            THEN [err |-> "IntegrityError", db |-> d]
            ELSE [err |-> "none",
                  db |-> [d EXCEPT ![table].rows =
                            {r \in t.rows : r.id # id} \cup {new}]]

\* REPLACE INTO <table> (id, names...) VALUES (id, vals...): a NULL in a
\* NOT NULL column without default aborts the statement; otherwise the row
\* with that id and every row colliding on a UNIQUE column are deleted and
\* the new row is inserted.
ExecReplace(d, table, id, names, vals) ==
    IF table \notin TableNames \/ ~d[table].exists
    THEN [err |-> "OperationalError", db |-> d]
    ELSE LET t == d[table]
             new == [id |-> id,
                     vals |-> [k \in {names[i] : i \in 1..Len(names)} |->
                                 vals[CHOOSE i \in 1..Len(names) : names[i] = k]]]
         IN IF \E i \in 1..Len(t.cols) :
                   t.cols[i].notnull /\ new.vals[t.cols[i].name] = None
            THEN [err |-> "IntegrityError", db |-> d]
            ELSE [err |-> "none",
                  db |-> [d EXCEPT ![table].rows =
                            {r \in t.rows : r.id # id /\ ~Collides(t, r, new)}
                            \cup {new}]]

\* The rows of a table in rowid order.
RowSeq(rows) ==
    CHOOSE s \in [1..Cardinality(rows) -> rows] :
        \A i, j \in 1..Cardinality(rows) : i < j => s[i].id < s[j].id

Reverse(s) == [i \in 1..Len(s) |-> s[Len(s) + 1 - i]]

\* One term `col = value` of a WHERE clause: the value is the i-th bound
\* parameter when the term is written `col = ?`, else the literal in it.
TermHolds(term, i, params, row) ==
    LET v == IF term.bound THEN params[i] ELSE term.lit
    IN /\ v # None
       /\ IF term.col = "id" THEN Some(row.id) = v ELSE row.vals[term.col] = v

\* SELECT * FROM <table> [WHERE terms] [ORDER BY id DESC]: the matching
\* rows in order. A WHERE keyword followed by no term is a syntax error,
\* and so is binding a number of parameters other than the number of `?`.
ExecSelect(d, stmt, params) ==
    IF \/ stmt.table \notin TableNames
       \/ ~d[stmt.table].exists
       \/ stmt.has_where /\ stmt.terms = <<>>
       \/ Cardinality({i \in 1..Len(stmt.terms) : stmt.terms[i].bound})
            # Len(params)
    THEN [err |-> "OperationalError", rows |-> <<>>]
    ELSE LET hit == {r \in d[stmt.table].rows :
                       \A i \in 1..Len(stmt.terms) :
                          TermHolds(stmt.terms[i], i, params, r)}
         IN [err |-> "none",
             rows |-> IF stmt.clauses = "ORDER BY id DESC"
                      THEN Reverse(RowSeq(hit)) ELSE RowSeq(hit)]

-----------------------------------------------------------------------------
(* The gateway: class Database.  Each operation yields the exception it    *)
(* raises ("none" if it returns), the value it returns, the store after    *)
(* it, the statements it passed to self.con.execute and the number of      *)
(* `with self.con` scopes it entered.                                      *)

Result(err, ret, d, log, txns) ==
    [err |-> err, ret |-> ret, db |-> d, log |-> log, txns |-> txns]

\* Returned values: None, one instance, a list of instances; a call that
\* raises returns nothing.
RetNone == [kind |-> "None", val |-> <<>>]
RetInstance(o) == [kind |-> "instance", val |-> <<o>>]
RetList(os) == [kind |-> "list", val |-> os]
Raised == [kind |-> "raised", val |-> <<>>]

\* Database.drop_table
drop_table(d, cls) ==
    LET r == ExecDrop(d, cls.table_name)
    IN Result(r.err, IF r.err = "none" THEN RetNone ELSE Raised, r.db,
              <<"DROP TABLE">>, 1)

\* Database.create_table: drop_table runs in a scope of its own, which has
\* committed when the CREATE TABLE scope is entered; the DDL is generated
\* inside the second scope.
create_table(d, cls, if_not_exists, recreate) ==
    LET dropped == IF recreate THEN drop_table(d, cls)
                   ELSE Result("none", RetNone, d, <<>>, 0)
        stmt == generate_create_table(cls, if_not_exists)
        r == ExecCreate(dropped.db, stmt)
    IN IF dropped.err # "none" THEN dropped
       ELSE IF stmt.err # "none"
       THEN Result(stmt.err, Raised, dropped.db, dropped.log, dropped.txns + 1)
       ELSE Result(r.err, IF r.err = "none" THEN RetNone ELSE Raised, r.db,
                   dropped.log \o <<"CREATE TABLE">>, dropped.txns + 1)

\* A row materialised as an instance: dbobj_class(**row).
FromRow(cls, row) == DBObject(cls, Some(row.id), row.vals)

\* Database.get without the check of line 26.
get_unchecked(d, cls, kwargs) ==
    LET stmt == [table |-> cls.table_name, has_where |-> TRUE,
                 terms |-> [i \in 1..Len(kwargs) |->
                              [col |-> kwargs[i][1], bound |-> TRUE, lit |-> None]],
                 clauses |-> ""]
        r == ExecSelect(d, stmt, [i \in 1..Len(kwargs) |-> kwargs[i][2]])
    IN IF r.err # "none" THEN Result(r.err, Raised, d, <<"SELECT">>, 1)
       ELSE IF r.rows = <<>>
       THEN Result("RecordNotFoundError", Raised, d, <<"SELECT">>, 1)
       ELSE Result("none", RetInstance(FromRow(cls, r.rows[1])), d, <<"SELECT">>, 1)

\* Database.get: kwargs is the sequence of (key, value) pairs.
get(d, cls, kwargs) ==
    IF kwargs = <<>>
    THEN Result("ValueError", Raised, d, <<>>, 0)
    ELSE LET stmt == [table |-> cls.table_name, has_where |-> TRUE,
                      terms |-> [i \in 1..Len(kwargs) |->
                                   [col |-> kwargs[i][1], bound |-> TRUE,
                                    lit |-> None]],
                      clauses |-> ""]
             r == ExecSelect(d, stmt, [i \in 1..Len(kwargs) |-> kwargs[i][2]])
         IN IF r.err # "none" THEN Result(r.err, Raised, d, <<"SELECT">>, 1)
            ELSE IF r.rows = <<>>
            THEN Result("RecordNotFoundError", Raised, d, <<"SELECT">>, 1)
            ELSE Result("none", RetInstance(FromRow(cls, r.rows[1])), d,
                        <<"SELECT">>, 1)

\* The `where` argument of select: None, a str, or a tuple (text, *params).
WhereNone == [kind |-> "None", terms |-> <<>>, params |-> <<>>]
WhereStr(terms) == [kind |-> "str", terms |-> terms, params |-> <<>>]
WhereTuple(terms, params) == [kind |-> "tuple", terms |-> terms, params |-> params]

\* Database.select_sql: the statement and where_params.
select_sql(cls, where, clauses) ==
    [stmt |-> [table |-> cls.table_name,
               has_where |-> where.kind # "None",
               terms |-> where.terms,
               clauses |-> IF TruthyText(clauses) THEN clauses[1] ELSE ""],
     where_params |-> IF where.kind = "tuple" THEN where.params ELSE <<>>]

\* Database.select
select(d, cls, where, clauses) ==
    LET q == select_sql(cls, where, clauses)
        r == ExecSelect(d, q.stmt, q.where_params)
    IN IF r.err # "none" THEN Result(r.err, Raised, d, <<"SELECT">>, 1)
       ELSE Result("none",
                   RetList([i \in 1..Len(r.rows) |-> FromRow(cls, r.rows[i])]),
                   d, <<"SELECT">>, 1)

\* Database._update: nothing is returned.
_update(d, o) ==
    LET r == ExecReplace(d, o.cls.table_name, o.id[1], field_names(o.cls),
                         values(o))
    IN Result(r.err, IF r.err = "none" THEN RetNone ELSE Raised, r.db,
              <<"REPLACE">>, 1)

\* Database._create: inside the scope, line 77 evaluates the name `c`,
\* which is bound nowhere in the module: NameError before any statement
\* reaches the connection, and line 78 does not run.
_create(d, o) == Result("NameError", Raised, d, <<>>, 1)

\* The branch Database.save takes.
save_path(o) == IF TruthyInt(o.id) THEN "update" ELSE "insert"

\* Database.save
save(d, o) == IF save_path(o) = "update" THEN _update(d, o) ELSE _create(d, o)

-----------------------------------------------------------------------------
(* State.                                                                  *)

VARIABLES
    db,     \* the store behind self.con: table name -> table
    obj,    \* the caller's entity instance
    err,    \* exception raised by the last call, "none" if it returned
    ret,    \* value returned by the last call
    log,    \* statements the last call passed to self.con.execute
    txns,   \* `with self.con` scopes the last call entered
    op,     \* the last call: its name, class and arguments, and the store
            \* just before it
    field,  \* a column descriptor
    ddl     \* the fragments to_ddl rendered for it, <<>> before rendering

vars == <<db, obj, err, ret, log, txns, op, field, ddl>>

Call(name, cls, args, pre) ==
    [name |-> name, cls |-> cls.name, args |-> args, pre |-> pre]

\* Lookup keyword arguments callers pass to get.
Lookups ==
    {<<>>}
    \cup {<< <<"id", i>> >> : i \in OptIds}
    \cup {<< <<"username", Some("alice")>> >>}
    \cup {<< <<"password", Some("pw1")>>, <<"username", Some("alice")>> >>}

\* `where` arguments callers pass to select.
Wheres ==
    {WhereNone,
     WhereStr(<< [col |-> "password", bound |-> FALSE, lit |-> Some("pw1")] >>),
     WhereTuple(<< [col |-> "username", bound |-> TRUE, lit |-> None] >>,
                <<Some("alice")>>)}

\* `clauses` arguments callers pass to select.
ClausesArgs == {None, Some("ORDER BY id DESC")}

\* Schemas callers query: the repository's, and one without a table name.
QueryClasses == {User, Unnamed}

Init ==
    /\ db = [t \in TableNames |-> NoTable]
    /\ obj = DBObject(User, None, [username |-> None, password |-> None])
    /\ err = "none"
    /\ ret = RetNone
    /\ log = <<>>
    /\ txns = 0
    /\ op = Call("init", User, <<>>, [t \in TableNames |-> NoTable])
    /\ field = User.fields[1][2]
    /\ ddl = <<>>

Finish(r, call) ==
    /\ db' = r.db
    /\ err' = r.err
    /\ ret' = r.ret
    /\ log' = r.log
    /\ txns' = r.txns
    /\ op' = call
    /\ UNCHANGED <<field, ddl>>

\* The caller constructs an instance: User(id=..., username=..., password=...).
New ==
    \E id \in OptIds, kwargs \in FieldInputs :
        /\ obj' = DBObject(User, id, kwargs)
        /\ Finish(Result("none", RetNone, db, <<>>, 0),
                  Call("new", User, <<>>, db))

\* The caller assigns a declared field of the instance.
SetAttr ==
    \E kwargs \in FieldInputs, k \in {"username", "password"} :
        /\ obj.vals[k] # kwargs[k]
        /\ obj' = [obj EXCEPT !.vals[k] = kwargs[k]]
        /\ Finish(Result("none", RetNone, db, <<>>, 0),
                  Call("setattr", User, <<k>>, db))

CreateTable ==
    \E cls \in Classes, if_not_exists \in BOOLEAN, recreate \in BOOLEAN :
        /\ Finish(create_table(db, cls, if_not_exists, recreate),
                  Call("create_table", cls, <<if_not_exists, recreate>>, db))
        /\ UNCHANGED obj

DropTable ==
    \E cls \in Classes :
        /\ Finish(drop_table(db, cls), Call("drop_table", cls, <<>>, db))
        /\ UNCHANGED obj

Get ==
    \E cls \in QueryClasses, kwargs \in Lookups :
        /\ Finish(get(db, cls, kwargs), Call("get", cls, kwargs, db))
        /\ UNCHANGED obj

Select ==
    \E cls \in QueryClasses, where \in Wheres, clauses \in ClausesArgs :
        /\ Finish(select(db, cls, where, clauses),
                  Call("select", cls, <<where.kind, clauses>>, db))
        /\ UNCHANGED obj

\* save(obj): the instance is left as it was (line 78 is never reached).
Save ==
    /\ Finish(save(db, obj),
              Call("save", obj.cls, <<save_path(obj)>>, db))
    /\ UNCHANGED obj

Next == New \/ SetAttr \/ CreateTable \/ DropTable \/ Get \/ Select \/ Save

Spec == Init /\ [][Next]_vars

-----------------------------------------------------------------------------
(* Rendering column descriptors on their own.                              *)

InitDDL ==
    /\ db = [t \in TableNames |-> NoTable]
    /\ obj = DBObject(User, None, [username |-> None, password |-> None])
    /\ err = "none"
    /\ ret = RetNone
    /\ log = <<>>
    /\ txns = 0
    /\ op = Call("init", User, <<>>, [t \in TableNames |-> NoTable])
    /\ field \in Fields
    /\ ddl = <<>>

\* Field.__init__ with other arguments.
NewField ==
    /\ field' \in Fields
    /\ ddl' = <<>>
    /\ UNCHANGED <<db, obj, err, ret, log, txns, op>>

\* ddl = field.to_ddl()
Render ==
    /\ ddl' = to_ddl(field)
    /\ UNCHANGED <<db, obj, err, ret, log, txns, op, field>>

NextDDL == NewField \/ Render

SpecDDL == InitDDL /\ [][NextDDL]_vars

-----------------------------------------------------------------------------
(* Properties.                                                             *)

\* The instance's table now and just before the last call.
Table == db[obj.cls.table_name]
PreTable == op.pre[obj.cls.table_name]

\* Every declared field holds a value (the columns are NOT NULL text).
Valid(o) == \A i \in 1..Len(o.cls.fields) : values(o)[i] # None

\* The row the instance maps to.
RowOf(o) == [id |-> o.id[1], vals |-> o.vals]

\* The last call was save(obj), on the given path.
Saved(path) == op.name = "save" /\ op.args[1] = path

\* get(schema, id=obj.id) against the current store.
GetById == get(db, obj.cls, << <<"id", obj.id>> >>)

\* C1: a save of a transient instance (id unset) whose table exists
\* executes an INSERT on the gateway's connection and, when it succeeds,
\* leaves a positive integer in instance.id.
C1_InsertAssignsId ==
    [][(op'.name = "save" /\ obj.id = None /\ Table.exists)
        => /\ InSeq(log', "INSERT")
           /\ err' = "none" => (obj'.id # None /\ obj'.id[1] > 0)]_vars

\* C2: after save(e) of an instance with valid field values on an existing
\* table, get(schema, id=e.id) returns an instance whose as_dict() equals
\* e.as_dict(), on the insert path and on the update path.
C2_RoundTrip ==
    (op.name = "save" /\ Valid(obj) /\ PreTable.exists)
        => /\ GetById.err = "none"
           /\ GetById.ret.kind = "instance"
           /\ as_dict(GetById.ret.val[1]) = as_dict(obj)

C4_FailedCallLeavesStore ==
    [][err' # "none" => db' = db]_vars

\* C5: save returns the instance it was given, on both paths.
C5_SaveReturnsInstance ==
    (op.name = "save" /\ err = "none")
        => (ret.kind = "instance" /\ ret.val = <<obj>>)

\* C6: save takes the update path exactly when the instance's id is set
\* (any integer), and the insert path only when it is unset; an id that is
\* set is never changed by save and a successful insert sets it.
C6_PathFromIdAlone ==
    [][op'.name = "save"
        => /\ (op'.args[1] = "update") <=> (obj.id # None)
           /\ obj.id # None => obj'.id = obj.id
           /\ (obj.id = None /\ err' = "none") => obj'.id # None]_vars

\* C7: saving a transient instance whose unique column value is already
\* held by a row fails with a StoreExecutionError, and exactly one row
\* holds that value afterwards.
C7_UniqueInsertRejected ==
    (/\ Saved("insert")
     /\ obj.id = None
     /\ PreTable.exists
     /\ \E r \in PreTable.rows : Collides(PreTable, r, [id |-> 0, vals |-> obj.vals]))
        => /\ err \in StoreExecutionError
           /\ Cardinality({r \in Table.rows :
                  Collides(PreTable, r, [id |-> 0, vals |-> obj.vals])}) = 1

\* C8: get with no lookup keys raises ValueError, executes no statement,
\* opens no transaction scope and leaves the store as it was.
C8_GetWithoutKeys ==
    (op.name = "get" /\ op.args = <<>>)
        => /\ err = "ValueError"
           /\ log = <<>>
           /\ txns = 0
           /\ db = op.pre

\* Reached: get without keys on a table that holds rows.
C8_Witness ==
    /\ op.name = "get"
    /\ op.args = <<>>
    /\ op.cls = "User"
    /\ err = "ValueError"
    /\ db["users"].exists
    /\ db["users"].rows # {}

\* C9: a rendered descriptor with a default other than None has the
\* DEFAULT fragment of that default right after the nullability fragment
\* and before UNIQUE and the raw constraint; one with no default has no
\* DEFAULT fragment.
C9_DefaultRendered ==
    ddl # <<>>
        => IF field.default # PyNone
           THEN /\ Len(ddl) >= 3
                /\ ddl[3] = "DEFAULT " \o Repr(field.default)
                /\ \A i \in 1..Len(ddl) :
                     (ddl[i] = "UNIQUE" \/ Some(ddl[i]) = field.constraints)
                        => i > 3
           ELSE \A i \in 1..Len(ddl) :
                    ddl[i] \notin {"DEFAULT " \o Repr(d) : d \in DefaultValues}

====
